---- MODULE Spec2Model ----
(***************************************************************************)
(* Model of toui/_signals.py: the Signal decorator (wrapper new_func,      *)
(* _call_method, _send) and the File handle (__init__, __iter__).          *)
(*                                                                         *)
(* One Signal instance decorates one method M.  The invoking objects are a *)
(* page, an element of that page and an instance of a Page subclass (whose *)
(* class name is neither "Page" nor "Element").  The remote side and the   *)
(* embedded evaluator are the environment: what they answer is chosen      *)
(* nondeterministically from small sets of texts.                          *)
(***************************************************************************)
EXTENDS Integers, Sequences, FiniteSets, TLC

\* ------------------------------------------------------------------ bounds
MaxChunks == 3        \* longest chunk sequence the remote pushes for one file
MaxQueue == 2         \* most messages waiting unread on the channel
MaxFileEntries == 2   \* most entries in a "files" response

\* ------------------------------------------------------------ Python values
NoneV == [kind |-> "none", val |-> <<>>]
StrV(s) == [kind |-> "str", val |-> s]
IntsV(s) == [kind |-> "ints", val |-> s]
BytesV(s) == [kind |-> "bytes", val |-> s]
FdListV(s) == [kind |-> "fdlist", val |-> s]
FilesV(s) == [kind |-> "files", val |-> s]

\* the local values M's body returns
LocalValues == {StrV(<<120>>)}

\* ---------------------------------------------------------------- objects
Objects == {"p1", "e1", "o1"}
ClassName(o) == CASE o = "p1" -> "Page" [] o = "e1" -> "Element" [] OTHER -> "MyPage"
NoWs == "None"
NoEval == "None"
Unset == "unset"

\* ------------------------------------------------------------ descriptors
NoSignal == [func |-> "", args |-> <<>>, fileId |-> 0, binary |-> FALSE]
CallSignal == [func |-> "_getFiles", args |-> <<>>, fileId |-> 0, binary |-> FALSE]
Truthy(signal) == signal # NoSignal

\* ------------------------------------------------------------------ texts
\* A text is what json.loads makes of it (ok = it parses to a dict with the
\* keys present) together with the validator's verdict on it.
MkText(valid, ok, hasType, type, hasData, data, hasEnd, end) ==
    [valid |-> valid, ok |-> ok, hasType |-> hasType, type |-> type,
     hasData |-> hasData, data |-> data, hasEnd |-> hasEnd, end |-> end]
BadText(valid) == MkText(valid, FALSE, FALSE, "", FALSE, NoneV, FALSE, FALSE)
ValueText(valid, d) == MkText(valid, TRUE, TRUE, "value", TRUE, d, FALSE, FALSE)
OtherTypeText(valid, d) == MkText(valid, TRUE, TRUE, "weird", TRUE, d, FALSE, FALSE)
FilesText(valid, ids) == MkText(valid, TRUE, TRUE, "files", TRUE, FdListV(ids), FALSE, FALSE)
NoTypeText(valid, d) == MkText(valid, TRUE, FALSE, "", TRUE, d, FALSE, FALSE)
NoDataText(valid) == MkText(valid, TRUE, TRUE, "value", FALSE, NoneV, FALSE, FALSE)
ChunkText(valid, d, end) == MkText(valid, TRUE, FALSE, "", TRUE, d, TRUE, end)

\* what the remote (or the evaluator) may answer to an ordinary descriptor
FdLists == {<<>>, <<0>>} \cup {[i \in 1..n |-> i] : n \in 1..MaxFileEntries}
ReplyShapes(valid) ==
    {BadText(valid), ValueText(valid, StrV(<<97>>)), OtherTypeText(valid, StrV(<<97>>)),
     NoTypeText(valid, StrV(<<97>>)), NoDataText(valid),
     ChunkText(valid, StrV(<<97>>), TRUE)}
    \cup {FilesText(valid, ids) : ids \in FdLists}
OrdinaryTexts == ReplyShapes(TRUE) \cup {BadText(FALSE), ValueText(FALSE, StrV(<<97>>))}
\* the answers to the page's calls while File handles are in use
PageReplies == {FilesText(TRUE, <<1>>), ValueText(TRUE, StrV(<<97>>))}

\* what the remote pushes for one retrieval: n chunks, chunk i carrying the
\* i-th piece of the file, the last one (and only it) flagged end; a chunk
\* may be rejected by the validator or be unparseable
ChunkData(kind, i) == [kind |-> kind, val |-> <<96 + i>>]
ChunkAt(kind, i, n, valid, wellFormed) ==
    IF wellFormed THEN ChunkText(valid, ChunkData(kind, i), i = n) ELSE BadText(valid)
\* at most one chunk of a sequence (chunk `bad`, 0 for none) is defective
ChunkSeqs ==
    {[i \in 1..n |-> ChunkAt(kind, i, n, i # bad \/ ~rejected, i # bad \/ rejected)] :
        n \in 1..MaxChunks, kind \in {"str", "ints"}, bad \in 0..MaxChunks,
        rejected \in BOOLEAN}

\* ------------------------------------------------------------------ state
VARIABLES
    return_type,          \* Signal.return_type: "js" or "None"
    func_name,            \* func.__name__ of the wrapped method M
    no_return_functions,  \* Signal.no_return_functions
    page_ws,              \* p1.__dict__.get("_ws")
    page_evaluate_js,     \* p1._evaluate_js
    signal_mode,          \* _signal_mode of every object
    attrs,                \* the (rebindable) attribute of every object
    dec,                  \* the decorator's own fields: ws, evaluate_js, object
    inbox,                \* messages the remote has sent on channel c1, unread
    files,                \* the File handles of the latest "files" result
    call,                 \* what the latest call of the wrapper did
    it                    \* the generator of the latest File iteration

vars == <<return_type, func_name, no_return_functions, page_ws, page_evaluate_js,
          signal_mode, attrs, dec, inbox, files, call, it>>

\* ------------------------------------------------------- File.__init__
\* an entry of a "files" response lacking one of the keys __init__ and its
\* caller read (name, size, type, last-modified, file-id) is written 0
EntryWellFormed(fileId) == fileId # 0
NewFile(fileId, signal, ws) ==
    [id |-> fileId, ws |-> ws, signal |-> signal, is_binary |-> FALSE]

\* --------------------------------------------------------- Signal._send
NoText == [valid |-> FALSE, ok |-> FALSE, hasType |-> FALSE, type |-> "none",
           hasData |-> FALSE, data |-> NoneV, hasEnd |-> FALSE, end |-> FALSE]
\* what one dispatch did: its result or the exception it raised, whether it
\* hangs in receive, its transport events in order, the text it read, the
\* channel's unread messages afterwards and the File handles it built
Outcome(result, raised, blocked, log, received, queue, handles) ==
    [result |-> result, raised |-> raised, blocked |-> blocked, log |-> log,
     received |-> received, queue |-> queue, handles |-> handles]

\* a validator call that accepts whatever it is given
ValidateAnything(text) == TRUE

\* self._app._validate_data(text): the external validator's verdict
Validate(text) == text.valid

\* a gate that is always open
ExpectsResultAlways(rt) == TRUE

\* the return-policy gate: self.return_type == "js"
ExpectsResult(rt) == rt = "js"

\* a loop that builds a File for the first entry only
BuildFilesFirstOnly(data, signal, ws) ==
    [i \in 1..(IF Len(data.val) > 0 THEN 1 ELSE 0) |-> NewFile(data.val[i], signal, ws)]

\* the for loop that builds one File per entry of data_dict['data']
BuildFiles(data, signal, ws) ==
    [i \in 1..Len(data.val) |-> NewFile(data.val[i], signal, ws)]
FilesBuildable(text) ==
    /\ text.hasData
    /\ text.data.kind = "fdlist"
    /\ \A i \in 1..Len(text.data.val) : EntryWellFormed(text.data.val[i])

\* lines 72-79: json.loads and the branching on data_dict['type']
DecodePersistent(text, signal, ws, log, queue) ==
    IF ~text.ok THEN Outcome(NoneV, "JSONDecodeError", FALSE, log, text, queue, <<>>)
    ELSE IF ~text.hasType THEN Outcome(NoneV, "KeyError", FALSE, log, text, queue, <<>>)
    ELSE IF text.type = "files" THEN
        IF FilesBuildable(text)
        THEN Outcome(FilesV([i \in 1..Len(text.data.val) |-> i]), "", FALSE, log, text, queue,
                     BuildFiles(text.data, signal, ws))
        ELSE Outcome(NoneV, IF text.hasData /\ text.data.kind = "fdlist"
                            THEN "KeyError" ELSE "TypeError", FALSE, log, text, queue, <<>>)
    ELSE IF ~text.hasData THEN Outcome(NoneV, "KeyError", FALSE, log, text, queue, <<>>)
    ELSE Outcome(text.data, "", FALSE, log, text, queue, <<>>)

\* a persistent branch that decodes the received text before validating it
SendPersistentDecodeFirst(ws, signal, queue, resp, rt) ==
    LET q1 == queue \o resp
    IN  IF ~ExpectsResult(rt) THEN Outcome(NoneV, "", FALSE, <<"send">>, NoText, q1, <<>>)
        ELSE IF q1 = <<>> THEN Outcome(NoneV, "", TRUE, <<"send", "recv">>, NoText, q1, <<>>)
        ELSE IF ~Validate(Head(q1))
             THEN Outcome(NoneV, "", FALSE, <<"send", "recv", "decode", "validate">>, Head(q1),
                          Tail(q1), <<>>)
        ELSE DecodePersistent(Head(q1), signal, ws,
                              <<"send", "recv", "decode", "validate">>, Tail(q1))

\* lines 62-79: the persistent branch; resp is what the remote answers to
\* this send, a receive on an empty channel never returns
SendPersistent(ws, signal, queue, resp, rt) ==
    LET q1 == queue \o resp
    IN  IF ~ExpectsResult(rt) THEN Outcome(NoneV, "", FALSE, <<"send">>, NoText, q1, <<>>)
        ELSE IF q1 = <<>> THEN Outcome(NoneV, "", TRUE, <<"send", "recv">>, NoText, q1, <<>>)
        ELSE IF ~Validate(Head(q1))
             THEN Outcome(NoneV, "", FALSE, <<"send", "recv", "validate">>, Head(q1),
                          Tail(q1), <<>>)
        ELSE DecodePersistent(Head(q1), signal, ws,
                              <<"send", "recv", "validate", "decode">>, Tail(q1))

\* lines 84-93: the try block and the return after it
DecodeDirect(out, signal, log, queue) ==
    IF ~out.ok \/ ~out.hasType THEN Outcome(NoneV, "", FALSE, log, out, queue, <<>>)
    ELSE IF out.type = "files" THEN
        IF FilesBuildable(out)
        THEN Outcome(FilesV([i \in 1..Len(out.data.val) |-> i]), "", FALSE, log, out, queue,
                     BuildFiles(out.data, signal, NoWs))
        ELSE Outcome(NoneV, "", FALSE, log, out, queue, <<>>)
    ELSE IF ~out.hasData THEN Outcome(NoneV, "KeyError", FALSE, log, out, queue, <<>>)
    ELSE Outcome(out.data, "", FALSE, log, out, queue, <<>>)

\* lines 80-93: the direct branch; out is the text the evaluator returns
SendDirect(evaluate_js, signal, queue, out, rt) ==
    IF evaluate_js = Unset THEN Outcome(NoneV, "AttributeError", FALSE, <<>>, NoText, queue, <<>>)
    ELSE IF evaluate_js = NoEval THEN Outcome(NoneV, "TypeError", FALSE, <<>>, NoText, queue, <<>>)
    ELSE IF ~ExpectsResult(rt) THEN Outcome(NoneV, "", FALSE, <<"eval">>, NoText, queue, <<>>)
    ELSE DecodeDirect(out, signal, <<"eval", "decode">>, queue)

\* the remote answers an ordinary descriptor with one message exactly when
\* the method's return policy is remote (strict request/response alternation)
RemoteAnswer(rt, reply) == IF rt = "js" THEN <<reply>> ELSE <<>>

\* if self.ws: ... else: ...
Send(d, signal, queue, reply, rt) ==
    IF d.ws # NoWs
    THEN SendPersistent(d.ws, signal, queue, RemoteAnswer(rt, reply), rt)
    ELSE SendDirect(d.evaluate_js, signal, queue, reply, rt)

\* --------------------------------------------------- Signal._call_method
included_private_methods == {"_open_another_page"}
StartsWithUnderscore(name) == name \in {"_hidden", "_open_another_page"}
\* the functions inspect.getmembers finds on the Signal object
BuilderNames == {"get_files", "on", "_hidden", "_open_another_page"}
\* the methods this Signal may wrap: name and declared return policy
WrappedMethods ==
    {<<"get_files", "js">>, <<"on", "js">>, <<"on", "None">>, <<"_hidden", "js">>,
     <<"_open_another_page", "None">>, <<"set_title", "None">>}
\* a lookup without the private-name filter
BuilderFoundAnyName(name) == name \in BuilderNames

BuilderFound(name) ==
    /\ name \in BuilderNames
    /\ (~StartsWithUnderscore(name) \/ name \in included_private_methods)

CallMethod(d, name, signal, queue, reply, rt) ==
    IF BuilderFound(name) /\ Truthy(signal)
    THEN Send(d, signal, queue, reply, rt)
    ELSE Outcome(NoneV, "", FALSE, <<>>, NoText, queue, <<>>)

\* ------------------------------------------------- Signal.__call__.new_func
\* a wrapper that forwards whatever the flag says
ForwardingAlways(mode) == TRUE

\* if self._signal_mode: (lines 25 and 29)
ForwardingActive(mode) == mode

\* original_copy = copy(self), bound only when the flag was on before the body
Snapshot(modeBefore, attr) ==
    IF ForwardingActive(modeBefore) THEN [bound |-> TRUE, attr |-> attr] ELSE [bound |-> FALSE, attr |-> 0]

\* the channel handle and the evaluator of the object's own context: p1's for
\* the page p1 and for its element e1; o1 is another page, of a subclass of
\* Page, with a connection and an evaluator of its own
ContextWs(self) == IF self = "o1" THEN "c2" ELSE page_ws
ContextEvaluateJs(self) == IF self = "o1" THEN "ev2" ELSE page_evaluate_js

\* lines 30-35: where the decorator takes ws and evaluate_js from: the page
\* itself, the element's parent page (p1), or nowhere for any other class
Resolve(d, self) ==
    IF ClassName(self) \in {"Element", "Page"}
    THEN [d EXCEPT !.ws = ContextWs(self), !.evaluate_js = ContextEvaluateJs(self)]
    ELSE d

\* a return policy that looks at the remote policy before the no-return set
ReturnPolicyRemoteFirst(name, noReturn, rt, real_output, value) ==
    IF rt = "js" THEN real_output
    ELSE IF name \in noReturn THEN NoneV
    ELSE value

\* lines 44-48
ReturnPolicy(name, noReturn, rt, real_output, value) ==
    IF name \in noReturn THEN NoneV
    ELSE IF rt = "js" THEN real_output
    ELSE value

\* keyword arguments whose original_copy is taken from the object after the body
KwargsCopyAfter(value, object, original_copy) ==
    [return_value |-> value, object |-> object,
     original_copy |-> [original_copy EXCEPT !.attr = object.attr]]

\* lines 36-42: the keyword arguments handed to the signal-builder
Kwargs(value, object, original_copy) ==
    [return_value |-> value, object |-> object, original_copy |-> original_copy]
NoKwargs == Kwargs(NoneV, [self |-> "None", attr |-> 0], Snapshot(FALSE, 0))

IdleIt ==
    [pc |-> "idle", file |-> 0, signal |-> NoSignal, log |-> <<>>, yields |-> <<>>,
     recvd |-> <<>>, raised |-> "", again |-> FALSE, saving |-> FALSE,
     stream |-> <<>>]

NoCall ==
    [op |-> "none", self |-> "p1", modeBefore |-> FALSE, modeAfter |-> FALSE,
     value |-> NoneV, dispatched |-> FALSE, signal |-> NoSignal, real_output |-> NoneV,
     ret |-> NoneV, raised |-> "", blocked |-> FALSE, log |-> <<>>,
     original_copy |-> Snapshot(FALSE, 0), object_attr |-> 0, ws |-> NoWs,
     evaluate_js |-> Unset, result |-> NoneV, received |-> NoText, handles |-> <<>>,
     attr_before |-> 0, kwargs |-> NoKwargs]

Hung == call.blocked \/ it.pc = "blocked"

\* One call of the wrapped method on `self`: the body returns `value`, leaves the
\* flag at modeAfter and the attribute at newAttr; the signal-builder returns
\* `signal`; the remote (or the evaluator) would answer `reply`.
NewFunc(self, value, modeAfter, newAttr, signal, reply) ==
    LET modeBefore == signal_mode[self]
        original_copy == Snapshot(modeBefore, attrs[self])
        d1 == [dec EXCEPT !.object = self]
        d2 == IF ForwardingActive(modeAfter) THEN Resolve(d1, self) ELSE d1
        unbound == ForwardingActive(modeAfter) /\ ~original_copy.bound
        dispatched == ForwardingActive(modeAfter) /\ ~unbound
    IN  \E o \in {IF dispatched
                  THEN CallMethod(d2, func_name, signal, inbox, reply, return_type)
                  ELSE Outcome(NoneV, IF unbound THEN "UnboundLocalError" ELSE "", FALSE,
                               <<>>, NoText, inbox, <<>>)} :
        LET real_output == IF dispatched THEN o.result ELSE value
            returns == o.raised = "" /\ ~o.blocked
            ret == IF returns
                   THEN ReturnPolicy(func_name, no_return_functions, return_type,
                                     real_output, value)
                   ELSE NoneV
        IN  /\ ~Hung
            /\ Len(o.queue) <= MaxQueue
            /\ signal_mode' = [signal_mode EXCEPT ![self] = modeAfter]
            /\ attrs' = [attrs EXCEPT ![self] = newAttr]
            /\ dec' = d2
            /\ inbox' = o.queue
            /\ files' = IF returns /\ ret.kind = "files" THEN o.handles ELSE files
            /\ it' = IdleIt
            /\ call' = [op |-> "call", self |-> self, modeBefore |-> modeBefore,
                        modeAfter |-> modeAfter, value |-> value, dispatched |-> dispatched,
                        signal |-> IF dispatched THEN signal ELSE NoSignal,
                        real_output |-> real_output, ret |-> ret, raised |-> o.raised,
                        blocked |-> o.blocked, log |-> o.log,
                        original_copy |-> original_copy, object_attr |-> newAttr,
                        ws |-> d2.ws, evaluate_js |-> d2.evaluate_js, result |-> o.result,
                        received |-> o.received, handles |-> o.handles,
                        attr_before |-> IF dispatched THEN attrs[self] ELSE 0,
                        kwargs |-> IF dispatched
                                   THEN Kwargs(value, [self |-> self, attr |-> newAttr],
                                               original_copy)
                                   ELSE NoKwargs]
            /\ UNCHANGED <<return_type, func_name, no_return_functions, page_ws,
                           page_evaluate_js>>

\* The bodies M may have on each object: on the page and the element it may
\* leave the flag and the attribute at any value; the subclass instance is live
\* for the whole run and its body changes neither.
FlagsAfter(self) == IF self = "o1" THEN {signal_mode[self]} ELSE BOOLEAN
AttrsAfter(self) == IF self = "o1" THEN {attrs[self]} ELSE 0..1
\* the answer matters only when one is read
RepliesTo(signal) ==
    IF return_type = "js" /\ signal # NoSignal THEN OrdinaryTexts ELSE {NoText}

Call ==
    \E self \in Objects, value \in LocalValues, signal \in {NoSignal, CallSignal} :
        \E modeAfter \in FlagsAfter(self), newAttr \in AttrsAfter(self),
           reply \in RepliesTo(signal) :
            NewFunc(self, value, modeAfter, newAttr, signal, reply)

\* the framework switches the page's or the element's signal mode on or off
SetSignalMode ==
    \E o \in {"p1", "e1"} :
        /\ ~Hung
        /\ signal_mode' = [signal_mode EXCEPT ![o] = ~signal_mode[o]]
        /\ UNCHANGED <<return_type, func_name, no_return_functions, page_ws,
                       page_evaluate_js, attrs, dec, inbox, files, call, it>>

\* ----------------------------------------------------------- File.__iter__
\* lines 138-143: the retrieval descriptor
RetrievalSignal(f) ==
    [func |-> "_saveFile", args |-> <<>>, fileId |-> f.id, binary |-> f.is_binary]

\* self._signal is the descriptor _send was given (lines 77, 90, 134), a dict:
\* it has no attribute evaluate_js
HasEvaluateJs(signal) == FALSE

\* bytearray(data): a list of byte values converts, a str (no encoding given)
\* raises TypeError
ByteArrayRaises(data) == data.kind # "ints"
ByteArray(data) == BytesV(data.val)

\* lines 153-157 and 165-169: decode one text and yield its data; g is the
\* generator, text the text in hand, binary the handle's is_binary now
YieldFrom(g, text, binary, log) ==
    IF ~text.ok THEN [g EXCEPT !.pc = "raised", !.raised = "JSONDecodeError", !.log = log]
    ELSE IF ~text.hasData THEN [g EXCEPT !.pc = "raised", !.raised = "KeyError", !.log = log]
    ELSE IF binary /\ ByteArrayRaises(text.data)
         THEN [g EXCEPT !.pc = "raised", !.raised = "TypeError", !.log = log]
    ELSE [g EXCEPT !.pc = "yielded", !.log = Append(log, "yield"),
                   !.yields = Append(g.yields, IF binary THEN ByteArray(text.data)
                                                ELSE text.data)]

\* lines 148-157: one pass of the persistent loop up to its yield
ReceiveChunk(g, queue, binary) ==
    IF queue = <<>>
    THEN [gen |-> [g EXCEPT !.pc = "blocked", !.log = Append(g.log, "recv")], queue |-> queue]
    ELSE LET text == Head(queue)
             g1 == [g EXCEPT !.recvd = Append(g.recvd, text)]
             log == g.log \o <<"recv", "validate">>
         IN  IF ~Validate(text)
             THEN [gen |-> [g1 EXCEPT !.pc = "done", !.log = log], queue |-> Tail(queue)]
             ELSE [gen |-> YieldFrom(g1, text, binary, Append(log, "decode")),
                   queue |-> Tail(queue)]

\* lines 158 and 170: if data_dict['end'] == True: break
EndCheckRaises(text) == ~text.hasEnd

\* an end test that never breaks the loop
EndOfFileNever(text) == FALSE

EndOfFile(text) == text.end

\* a generator that keeps what the generator before it had received and yielded
ResumedGenerator(i, prev) ==
    [prev EXCEPT !.pc = "start", !.file = i, !.raised = "",
                 !.again = prev.file = i /\ prev.pc \in {"yielded", "done", "raised"}]

\* line 137: calling __iter__ makes a generator whose locals are all unset;
\* `again` notes that the generator before it ran on the same handle
NewGenerator(i, prev) ==
    [IdleIt EXCEPT !.pc = "start", !.file = i,
                   !.again = prev.file = i /\ prev.pc \in {"yielded", "done", "raised"}]

\* iter(file): a new generator, none of its body run yet; an earlier generator
\* is dropped where it stands (`call` describes the latest operation only when
\* that was a call of the wrapper, `it` only when it was an iteration)
Iter ==
    \E i \in 1..Len(files) :
        /\ ~Hung
        /\ it' = NewGenerator(i, it)
        /\ call' = NoCall
        /\ UNCHANGED <<return_type, func_name, no_return_functions, page_ws,
                       page_evaluate_js, signal_mode, attrs, dec, inbox, files>>

\* first next(): lines 138-157 on the persistent branch, 138-169 on the direct
\* one; resp is what the remote pushes in answer to the retrieval descriptor
IterFirst ==
    /\ ~Hung
    /\ it.pc = "start"
    /\ LET f == files[it.file]
           signal == RetrievalSignal(f)
           g == [it EXCEPT !.signal = signal]
       IN  IF f.ws # NoWs
           THEN \E resp \in ChunkSeqs :
                  \E r \in {ReceiveChunk([g EXCEPT !.log = <<"send">>], inbox \o resp,
                                         f.is_binary)} :
                    /\ Len(r.queue) <= MaxQueue
                    /\ it' = r.gen
                    /\ inbox' = r.queue
           ELSE /\ it' = IF HasEvaluateJs(f.signal)
                         THEN YieldFrom([g EXCEPT !.recvd = <<ChunkText(TRUE, ChunkData("str", 1), TRUE)>>],
                                        ChunkText(TRUE, ChunkData("str", 1), TRUE),
                                        f.is_binary, <<"eval", "decode">>)
                         ELSE [g EXCEPT !.pc = "raised", !.raised = "AttributeError"]
                /\ UNCHANGED inbox
    /\ UNCHANGED <<return_type, func_name, no_return_functions, page_ws,
                   page_evaluate_js, signal_mode, attrs, dec, files, call>>

\* a later next(): the end test of the chunk just yielded, then the next pass
IterNext ==
    /\ ~Hung
    /\ it.pc = "yielded"
    /\ LET f == files[it.file]
           last == it.recvd[Len(it.recvd)]
       IN  IF EndCheckRaises(last)
           THEN it' = [it EXCEPT !.pc = "raised", !.raised = "KeyError"] /\ UNCHANGED inbox
           ELSE IF EndOfFile(last)
           THEN it' = [it EXCEPT !.pc = "done"] /\ UNCHANGED inbox
           ELSE IF f.ws # NoWs
           THEN \E r \in {ReceiveChunk(it, inbox, f.is_binary)} :
                    it' = r.gen /\ inbox' = r.queue
           ELSE it' = YieldFrom(it, last, f.is_binary, Append(it.log, "decode"))
                /\ UNCHANGED inbox
    /\ UNCHANGED <<return_type, func_name, no_return_functions, page_ws,
                   page_evaluate_js, signal_mode, attrs, dec, files, call>>

\* a loop body that writes and does not flush
WriteChunkNoFlush(g, data) ==
    [g EXCEPT !.log = Append(@, "write"), !.stream = Append(@, data)]

\* lines 197-198, the body of save's loop: stream.write(data); stream.flush()
WriteChunk(g, data) ==
    [g EXCEPT !.log = @ \o <<"write", "flush">>, !.stream = Append(@, data)]

\* lines 196-198: `for data in self:` drives the generator of lines 148-159 to
\* its end, running the loop body after every yield and before the next pass
RECURSIVE SaveLoop(_, _, _)
SaveLoop(g, queue, binary) ==
    LET r == ReceiveChunk(g, queue, binary)
    IN  IF r.gen.pc # "yielded" THEN r
        ELSE LET last == r.gen.recvd[Len(r.gen.recvd)]
                 g2 == WriteChunk(r.gen, r.gen.yields[Len(r.gen.yields)])
             IN  IF EndCheckRaises(last)
                 THEN [gen |-> [g2 EXCEPT !.pc = "raised", !.raised = "KeyError"],
                       queue |-> r.queue]
                 ELSE IF EndOfFile(last)
                 THEN [gen |-> [g2 EXCEPT !.pc = "done"], queue |-> r.queue]
                 ELSE SaveLoop(g2, r.queue, binary)

\* file.save(stream), lines 176-198: the whole loop runs inside the one call;
\* resp is what the remote pushes in answer to the retrieval descriptor
Save ==
    \E i \in 1..Len(files) :
        /\ ~Hung
        /\ call' = NoCall
        /\ LET f == files[i]
               g == [NewGenerator(i, it) EXCEPT !.signal = RetrievalSignal(f),
                                                !.saving = TRUE]
           IN  IF f.ws # NoWs
               THEN \E resp \in ChunkSeqs :
                      \E r \in {SaveLoop([g EXCEPT !.log = <<"send">>], inbox \o resp,
                                         f.is_binary)} :
                        /\ Len(r.queue) <= MaxQueue
                        /\ it' = r.gen
                        /\ inbox' = r.queue
               ELSE /\ it' = IF HasEvaluateJs(f.signal)
                             THEN WriteChunk(
                                    YieldFrom([g EXCEPT !.recvd = <<ChunkText(TRUE, ChunkData("str", 1), TRUE)>>],
                                              ChunkText(TRUE, ChunkData("str", 1), TRUE),
                                              f.is_binary, <<"eval", "decode">>),
                                    ChunkData("str", 1))
                             ELSE [g EXCEPT !.pc = "raised", !.raised = "AttributeError"]
                    /\ UNCHANGED inbox
        /\ UNCHANGED <<return_type, func_name, no_return_functions, page_ws,
                       page_evaluate_js, signal_mode, attrs, dec, files>>

\* the caller sets file.is_binary
SetBinary ==
    \E i \in 1..Len(files) :
        /\ ~Hung
        /\ files' = [files EXCEPT ![i].is_binary = ~files[i].is_binary]
        /\ UNCHANGED <<return_type, func_name, no_return_functions, page_ws,
                       page_evaluate_js, signal_mode, attrs, dec, inbox, call, it>>

\* a call of the wrapped method on the live page, its body plain
PageCall ==
    \E value \in LocalValues, reply \in PageReplies :
        NewFunc("p1", value, signal_mode["p1"], attrs["p1"], CallSignal, reply)

\* ------------------------------------------------------------------- Init
\* the contexts a page can be in: connected, embedded evaluator only, neither
PageContexts == {<<"c1", "ev1">>, <<NoWs, "ev1">>, <<NoWs, NoEval>>}
Init ==
    /\ \E m \in WrappedMethods : func_name = m[1] /\ return_type = m[2]
    /\ no_return_functions = {"on"}
    /\ \E c \in PageContexts : page_ws = c[1] /\ page_evaluate_js = c[2]
    /\ signal_mode = [o \in Objects |-> o = "o1"]
    /\ attrs = [o \in Objects |-> 0]
    /\ dec = [ws |-> NoWs, evaluate_js |-> Unset, object |-> "None"]
    /\ inbox = <<>>
    /\ files = <<>>
    /\ call = NoCall
    /\ it = IdleIt

Next == Call \/ SetSignalMode

Spec == Init /\ [][Next]_vars

\* The life of File handles: a live page whose wrapped method get_files has
\* the remote return policy is called, then the handles it returned are
\* iterated, with further calls of the method in between.
InitFile ==
    /\ func_name = "get_files" /\ return_type = "js"
    /\ no_return_functions = {"on"}
    /\ \E c \in {<<"c1", "ev1">>, <<NoWs, "ev1">>} : page_ws = c[1] /\ page_evaluate_js = c[2]
    /\ signal_mode = [o \in Objects |-> TRUE]
    /\ attrs = [o \in Objects |-> 0]
    /\ dec = [ws |-> NoWs, evaluate_js |-> Unset, object |-> "None"]
    /\ inbox = <<>>
    /\ files = <<>>
    /\ call = NoCall
    /\ it = IdleIt

NextFile == PageCall \/ Iter \/ IterFirst \/ IterNext \/ Save \/ SetBinary

SpecFile == InitFile /\ [][NextFile]_vars

\* ================================================================ claims
Count(log, e) == Cardinality({i \in 1..Len(log) : log[i] = e})
Returned == call.op = "call" /\ call.raised = "" /\ ~call.blocked
\* the call reached _send with a descriptor (names read off the Signal class)
QualifyingNames == {"get_files", "on", "_open_another_page"}
SentDescriptor ==
    call.op = "call" /\ call.dispatched /\ func_name \in QualifyingNames
    /\ call.signal # NoSignal
OnPersistent == SentDescriptor /\ call.ws # NoWs
OnDirect == SentDescriptor /\ call.ws = NoWs /\ call.evaluate_js \notin {NoEval, Unset}
FlagOffThroughout == call.op = "call" /\ ~call.modeBefore /\ ~call.modeAfter

\* C1 (as stated): with the signal-mode flag off for the whole call, the
\* wrapper of every method returns exactly the value M's body returns, with no
\* send, receive, evaluator call or validator call.
C1_AsStated ==
    FlagOffThroughout => Returned /\ call.ret = call.value /\ call.log = <<>>

\* C1 (amended): with the flag off for the whole call the wrapper completes
\* with no send, receive, evaluator call or validator call, and it returns
\* exactly the value M's body returns when M's name is not in the no-return
\* set (and nothing when it is).
C1_LocalCallUntouched ==
    FlagOffThroughout =>
        /\ Returned
        /\ call.log = <<>>
        /\ ~call.dispatched
        /\ call.ret = IF func_name \in no_return_functions THEN NoneV ELSE call.value

C1_Witness ==
    /\ FlagOffThroughout
    /\ func_name = "get_files" /\ return_type = "js" /\ page_ws = "c1"
    /\ call.ret = call.value /\ call.value # NoneV

\* C2: with signal mode on, when the paired signal-builder returns a falsy
\* value, or no builder of that name qualifies, dispatch performs no send, no
\* receive and no evaluator call, and returns nothing without raising.
C2_NoSignalNoTransport ==
    (call.op = "call" /\ call.dispatched
       /\ (func_name \notin QualifyingNames \/ call.signal = NoSignal))
    => /\ call.log = <<>>
       /\ call.result = NoneV
       /\ call.raised = "" /\ ~call.blocked
       /\ call.received = NoText

C2_Witness ==
    /\ call.op = "call" /\ call.dispatched
    /\ func_name = "_hidden" /\ call.signal # NoSignal /\ page_ws = "c1"
    /\ call.log = <<>>

C2_WitnessFalsy ==
    /\ call.op = "call" /\ call.dispatched
    /\ func_name = "get_files" /\ call.signal = NoSignal /\ call.log = <<>>

\* C3: a call that returns returns nothing when M's name is in the no-return
\* set; otherwise real_output under the remote ("js") policy, which is the
\* dispatcher's result when dispatch ran and M's value when it did not;
\* otherwise M's local value.
C3_ReturnPolicy ==
    Returned =>
        call.ret = IF func_name \in {"on"} THEN NoneV
                   ELSE IF return_type = "js"
                        THEN (IF call.dispatched THEN call.result ELSE call.value)
                        ELSE call.value

C3_Witness ==
    /\ Returned /\ call.dispatched
    /\ func_name = "get_files" /\ call.result.kind = "str" /\ call.ret = call.result
    /\ call.ret # call.value

C3_WitnessNoReturn ==
    /\ Returned /\ func_name = "on" /\ return_type = "js"
    /\ call.result # NoneV /\ call.ret = NoneV

\* C4: under a return policy that is not remote, sending a non-empty
\* descriptor transmits it exactly once (one channel send on the persistent
\* branch, one evaluator call on the direct branch), with no receive, no
\* validation and no decoding, and the send returns nothing.
C4_FireAndForget ==
    (SentDescriptor /\ return_type # "js") =>
        /\ Count(call.log, "recv") = 0
        /\ Count(call.log, "validate") = 0
        /\ Count(call.log, "decode") = 0
        /\ call.result = NoneV /\ call.received = NoText /\ ~call.blocked
        /\ call.ws # NoWs => call.log = <<"send">> /\ call.raised = ""
        /\ OnDirect => call.log = <<"eval">> /\ call.raised = ""

C4_Witness ==
    /\ OnPersistent /\ func_name = "_open_another_page" /\ return_type = "None"
    /\ call.log = <<"send">>

C4_WitnessDirect ==
    /\ OnDirect /\ return_type = "None" /\ call.log = <<"eval">>

\* C5: on the persistent branch with a remote return policy an ordinary call
\* performs exactly one send followed by exactly one receive, and the
\* validator is called on the received text before the text is decoded or any
\* of it is returned.
C5_SendReceiveValidate ==
    (OnPersistent /\ return_type = "js") =>
        /\ Count(call.log, "send") = 1 /\ Count(call.log, "recv") = 1
        /\ Len(call.log) >= 2 /\ call.log[1] = "send" /\ call.log[2] = "recv"
        /\ ~call.blocked => Len(call.log) >= 3 /\ call.log[3] = "validate"
        /\ \A i \in 1..Len(call.log) : call.log[i] = "decode" => i = 4
        /\ call.result # NoneV => call.log = <<"send", "recv", "validate", "decode">>

C5_Witness ==
    /\ OnPersistent /\ return_type = "js"
    /\ call.log = <<"send", "recv", "validate", "decode">>
    /\ call.result.kind = "str"

\* C6: on the persistent branch, when the validator rejects the message an
\* ordinary call received, the result is None, nothing is raised, the message
\* is not decoded and the call makes no further send or receive.
C6_RejectedIsDiscarded ==
    (OnPersistent /\ return_type = "js" /\ call.received # NoText /\ ~call.received.valid) =>
        /\ call.result = NoneV
        /\ call.raised = "" /\ ~call.blocked
        /\ call.log = <<"send", "recv", "validate">>
        /\ call.ret = NoneV

C6_Witness ==
    /\ OnPersistent /\ return_type = "js"
    /\ call.received = ValueText(FALSE, StrV(<<97>>))
    /\ call.result = NoneV

\* C7 (as stated): on the direct-evaluator branch with a remote return
\* policy, whatever text the evaluator returns, the send propagates no error,
\* and a text that does not parse yields the default result, data None.
C7_DirectNeverRaises ==
    (OnDirect /\ return_type = "js") =>
        /\ call.raised = ""
        /\ ~call.received.ok => call.result = NoneV

\* ------------------------------------------------------- File iteration
Iterating == it.pc \notin {"idle", "start"}
PersistentIter == Iterating /\ files[it.file].ws # NoWs
DirectIter == Iterating /\ files[it.file].ws = NoWs
\* every message received so far passed the validator and is a chunk message
AllChunksGood ==
    \A i \in 1..Len(it.recvd) :
        /\ it.recvd[i].valid /\ it.recvd[i].ok
        /\ it.recvd[i].hasData /\ it.recvd[i].hasEnd

\* C8: iterating a File handle bound to a persistent channel, every message
\* valid: the retrieval descriptor is sent exactly once, first; there is one
\* receive per chunk and no further send; the chunks' data are yielded in the
\* order received; the iteration stops after yielding the first chunk whose end
\* flag is true, with no receive after that chunk.
C8_ChunksInOrderUntilEnd ==
    (PersistentIter /\ AllChunksGood /\ it.raised = "") =>
        /\ Count(it.log, "send") = 1 /\ it.log[1] = "send"
        /\ it.signal = [func |-> "_saveFile", args |-> <<>>,
                        fileId |-> files[it.file].id, binary |-> it.signal.binary]
        /\ it.pc \in {"yielded", "done"}
        /\ Count(it.log, "recv") = Len(it.recvd)
        /\ Len(it.yields) = Len(it.recvd)
        /\ \A i \in 1..Len(it.yields) :
              it.yields[i].kind # "bytes" => it.yields[i] = it.recvd[i].data
        /\ \A i \in 1..(Len(it.recvd) - 1) : ~it.recvd[i].end
        /\ it.pc = "done" => it.recvd[Len(it.recvd)].end

C8_Witness ==
    /\ PersistentIter /\ AllChunksGood /\ it.pc = "done"
    /\ it.yields = <<StrV(<<97>>), StrV(<<98>>)>>
    /\ it.log = <<"send", "recv", "validate", "decode", "yield",
                  "recv", "validate", "decode", "yield">>

\* C9: while a File handle on a persistent channel is iterated every received
\* chunk is validated before it is decoded and yielded, and the first chunk
\* the validator rejects ends the sequence without an exception: it is not
\* yielded, no later chunk is yielded and nothing more is received.
C9_RejectedChunkEndsSequence ==
    PersistentIter =>
        /\ \A k \in 1..Len(it.log) :
              /\ (it.log[k] = "recv" /\ k < Len(it.log)) => it.log[k + 1] = "validate"
              /\ it.log[k] = "decode" => (k > 1 /\ it.log[k - 1] = "validate")
              /\ it.log[k] = "yield" => (k > 1 /\ it.log[k - 1] = "decode")
        /\ \A i \in 1..Len(it.recvd) :
              ~it.recvd[i].valid =>
                  /\ i = Len(it.recvd)
                  /\ it.pc = "done" /\ it.raised = ""
                  /\ Len(it.yields) = i - 1
                  /\ it.log[Len(it.log)] = "validate"
                  /\ Count(it.log, "recv") = i

C9_Witness ==
    /\ PersistentIter /\ it.pc = "done"
    /\ Len(it.recvd) = 2 /\ it.recvd[1].valid /\ ~it.recvd[2].valid /\ it.recvd[2].ok
    /\ it.yields = <<StrV(<<97>>)>>
    /\ inbox # <<>>

\* C10 (as stated): iterating a File handle bound to no channel invokes the
\* embedded evaluator exactly once with the retrieval descriptor, decodes the
\* returned text as one chunk and yields it.
C10_DirectIterationYields ==
    DirectIter =>
        /\ Count(it.log, "eval") = 1
        /\ it.raised = ""
        /\ Len(it.yields) >= 1

\* C11: iterating the same File handle a second time restarts the retrieval:
\* the new iteration starts with nothing received or yielded, issues its own
\* send of the retrieval descriptor and then its own receives, and every
\* chunk it yields is one it received itself.
C11_ReiterationRefetches ==
    it.again =>
        /\ it.pc = "start" => (it.yields = <<>> /\ it.recvd = <<>> /\ it.log = <<>>)
        /\ PersistentIter =>
              /\ it.log[1] = "send" /\ Count(it.log, "send") = 1
              /\ it.signal = RetrievalSignal([files[it.file] EXCEPT !.is_binary = it.signal.binary])
              /\ Count(it.log, "recv") = Len(it.recvd) + (IF it.pc = "blocked" THEN 1 ELSE 0)
              /\ Len(it.yields) = Count(it.log, "yield")
              /\ Len(it.yields) <= Len(it.recvd)
              /\ \A k \in 1..Len(it.yields) :
                    it.yields[k] \in {it.recvd[k].data, BytesV(it.recvd[k].data.val)}

C11_Witness ==
    /\ it.again /\ PersistentIter /\ it.pc = "done" /\ AllChunksGood
    /\ it.yields = <<StrV(<<97>>), StrV(<<98>>)>>
    /\ it.log = <<"send", "recv", "validate", "decode", "yield",
                  "recv", "validate", "decode", "yield">>

\* C12: save(target) consumes the whole chunk sequence: the target receives one
\* write per yielded chunk, in order, each write followed at once by a flush and
\* both before the next chunk is fetched; the target is never closed.
C12_SaveWritesAndFlushes ==
    it.saving =>
        /\ it.pc \in {"done", "raised", "blocked"}
        /\ it.stream = it.yields
        /\ Count(it.log, "write") = Len(it.yields)
        /\ Count(it.log, "flush") = Len(it.yields)
        /\ Count(it.log, "close") = 0
        /\ \A k \in 1..Len(it.log) :
              /\ it.log[k] = "yield" =>
                    k + 2 <= Len(it.log) /\ it.log[k+1] = "write" /\ it.log[k+2] = "flush"
              /\ it.log[k] = "write" => k > 1 /\ it.log[k-1] = "yield"
              /\ it.log[k] = "flush" => k > 1 /\ it.log[k-1] = "write"
        /\ (it.pc = "done" /\ AllChunksGood) =>
              /\ it.recvd[Len(it.recvd)].end
              /\ Len(it.stream) = Len(it.recvd)
              /\ \A k \in 1..Len(it.recvd) :
                    it.stream[k] \in {it.recvd[k].data, BytesV(it.recvd[k].data.val)}

C12_Witness ==
    /\ it.saving /\ PersistentIter /\ it.pc = "done"
    /\ it.stream = <<StrV(<<97>>), StrV(<<98>>)>>
    /\ it.log = <<"send", "recv", "validate", "decode", "yield", "write", "flush",
                  "recv", "validate", "decode", "yield", "write", "flush">>

\* the latest call decoded a response of kind "files" whose entries carry
\* every key File.__init__ and its caller read
DecodedFiles ==
    /\ call.op = "call" /\ Count(call.log, "decode") = 1
    /\ call.received.ok /\ call.received.hasType /\ call.received.type = "files"
    /\ FilesBuildable(call.received)

\* C13: a decoded ordinary response of kind "files" gives a list with exactly
\* one File handle per entry of the response's data, in the same order, each
\* with is_binary false; on the persistent branch every handle is bound to the
\* channel the response was received on, on the direct branch to no channel.
C13_OneHandlePerEntry ==
    DecodedFiles =>
        /\ call.raised = "" /\ ~call.blocked
        /\ call.result.kind = "files"
        /\ Len(call.result.val) = Len(call.received.data.val)
        /\ Len(call.handles) = Len(call.received.data.val)
        /\ \A i \in 1..Len(call.handles) :
              /\ call.handles[i].id = call.received.data.val[i]
              /\ call.handles[i].is_binary = FALSE
              /\ call.handles[i].signal = call.signal
              /\ OnPersistent => (call.handles[i].ws = call.ws /\ call.handles[i].ws # NoWs)
              /\ OnDirect => call.handles[i].ws = NoWs
        /\ OnPersistent \/ OnDirect
        /\ call.ret.kind = "files" => files = call.handles

C13_Witness ==
    /\ DecodedFiles /\ OnPersistent
    /\ call.received.data.val = <<1, 2>>
    /\ Len(files) = 2 /\ files[1].id = 1 /\ files[2].id = 2 /\ files[2].ws = "c1"

C13_WitnessDirect ==
    /\ DecodedFiles /\ OnDirect
    /\ call.received.data.val = <<1, 2>>
    /\ Len(files) = 2 /\ files[1].id = 1 /\ files[2].id = 2 /\ files[2].ws = NoWs

\* C14 (as stated): an ordinary response that passed validation and was decoded
\* must carry a `type` that is "value" or "files"; with `type` absent or of any
\* other value the response is discarded: the caller receives nothing and no
\* exception.
C14_UnrecognizedTypeDiscarded ==
    (/\ SentDescriptor /\ Count(call.log, "decode") = 1 /\ call.received.ok
     /\ (~call.received.hasType \/ call.received.type \notin {"value", "files"})) =>
        /\ call.raised = ""
        /\ call.result = NoneV
        /\ call.ret = NoneV

\* C15 (as stated): a non-empty descriptor dispatched while neither a
\* persistent channel nor an evaluator is reachable from the invoking object
\* produces no remote effect and no remote result, and no error reaches the
\* caller.
C15_NoTransportIsSilent ==
    (/\ SentDescriptor /\ call.ws = NoWs /\ call.evaluate_js \in {NoEval, Unset}) =>
        /\ call.log = <<>>
        /\ call.result = NoneV
        /\ call.raised = ""

\* C16 (as stated): for every forwarded call the channel handle and the
\* evaluator used to transmit the descriptor are the ones resolved during that
\* same call from the invoking object's own context (the page's own, or the
\* owning page's for an element), never ones left over from an earlier call on
\* a different object.
C16_HandleResolvedPerCall ==
    SentDescriptor =>
        /\ call.ws = ContextWs(call.self)
        /\ call.evaluate_js = ContextEvaluateJs(call.self)

\* C17: with signal mode on, the original_copy passed to the signal-builder
\* equals the invoking object's attribute state before M's body ran, whatever
\* the body rebinds; return_value is M's local return value and object is the
\* invoking object as it is after the body.
C17_SnapshotBeforeBody ==
    (call.op = "call" /\ call.dispatched) =>
        /\ call.modeBefore /\ call.modeAfter
        /\ call.kwargs.original_copy.bound
        /\ call.kwargs.original_copy.attr = call.attr_before
        /\ call.kwargs.return_value = call.value
        /\ call.kwargs.object = [self |-> call.self, attr |-> attrs[call.self]]

C17_Witness ==
    /\ call.op = "call" /\ call.dispatched /\ SentDescriptor
    /\ call.attr_before = 0 /\ attrs[call.self] = 1
    /\ call.kwargs.original_copy.attr = 0 /\ call.kwargs.object.attr = 1
    /\ call.kwargs.return_value = StrV(<<120>>)

\* C18 (as stated): the retrieval descriptor has function name `_saveFile`,
\* empty positional args and keyword args file-id = the handle's id and binary =
\* is_binary at the start of the iteration; each yielded chunk is converted to a
\* byte sequence exactly when is_binary is true, so that with is_binary true
\* the chunks "a", "b", ... are yielded as their binary conversions, one for
\* one (read on iterations during which is_binary is left alone: those of save).
C18_BinaryIsElementwiseConversion ==
    PersistentIter =>
        /\ it.signal.func = "_saveFile" /\ it.signal.args = <<>>
        /\ it.signal.fileId = files[it.file].id
        /\ it.raised # "TypeError"
        /\ (it.saving /\ AllChunksGood) =>
              /\ Len(it.yields) = Len(it.recvd)
              /\ \A k \in 1..Len(it.yields) :
                    it.yields[k] = IF it.signal.binary THEN BytesV(it.recvd[k].data.val)
                                   ELSE it.recvd[k].data

\* C19 (as stated): the wrapper never fails because the signal-mode flag
\* changes during the call: whatever the flag is before and after M's body
\* (off/off, on/on, off to on, on to off) the wrapper completes, and whenever
\* the flag is on after the body, the pre-call snapshot it hands on exists.
C19_FlagFlipIsSafe ==
    call.op = "call" =>
        /\ call.raised # "UnboundLocalError"
        /\ call.modeAfter => call.original_copy.bound

\* C20 (as stated): strict request/response alternation is preserved across
\* operations run one after another on one persistent channel: when a File
\* iteration has ended (by its end flag or by a validator rejection) or an
\* ordinary call has returned, every message the remote sent in answer to it
\* has been consumed, and the message an ordinary call receives is the response
\* to its own descriptor, never a leftover chunk of an earlier retrieval.
C20_AlternationPreserved ==
    /\ (PersistentIter /\ it.pc = "done") => inbox = <<>>
    /\ (OnPersistent /\ Count(call.log, "recv") = 1 /\ ~call.blocked) =>
          /\ call.received \in PageReplies
          /\ inbox = <<>>

====
